---- MODULE Spec2Model ----
(***************************************************************************)
(* A model of src/wgan_model.py: the training orchestrator train() with    *)
(* its checkpoint save/resume, and the feature codec DataWrapper           *)
(* (preprocess / deprocess).                                               *)
(*                                                                         *)
(* Network weights and optimizer states are abstracted to the number of    *)
(* optimizer updates applied to them; the arithmetic of the losses is not  *)
(* modelled, only whether a running sum exists and how many batches were   *)
(* added to it.                                                            *)
(***************************************************************************)
EXTENDS Integers, Sequences, FiniteSets, TLC

\* ---------------------------------------------------------------- bounds
MaxCriticSteps == 3
MaxEpochs      == 2
MaxBatchSize   == 2
MaxEvery       == 2
NRows          == 3
MaxRuns        == 2
MaxLevel       == 2
MaxTableRows   == 2
MaxCont        == 1

Rows == 1..NRows

\* The optimizer registry of train(); the names given to Specifications: the
\* default one and one outside the registry.
Registry   == {"AdamHD", "Adam"}
Optimizers == {"AdamHD", "SGD"}

\* The keys of the dict handed to torch.save, in the order of the literal.
CheckpointKeys == <<"epoch", "step", "generator_state_dict", "critic_state_dict",
                    "opt_generator_state_dict", "opt_critic_state_dict">>

VARIABLES
  s,              \* specifications.settings
  pc,             \* position of the process in Specifications() / train()
  err,            \* the exception that ended the process, "" if none
  placed,         \* generator.to(device), critic.to(device) was executed
  run,            \* number of processes started so far
  epoch, step,    \* the loop variables of train()
  step0,          \* value of step when the epoch loop was entered
  n_batches,      \* batches added to the running sum of the current pass
  batchesLeft,    \* batches the current DataLoader iteration still yields
  testRows,       \* rows random_split put into the held-out split
  requires_grad,  \* par.requires_grad of each network's parameters
  weights,        \* per network: number of updates applied to its parameters
  opt,            \* per optimizer: number of step() calls in its state
  file,           \* the checkpoint file at save_checkpoint
  prevFile,       \* content of the file when the current save began
  cpSplit,        \* held-out rows of the run that wrote the checkpoint
  trace,          \* the training batches processed by this call of train()
  description,    \* the last progress report
  refTable, table, cat_dims, d_cont, x, decoded, cpc   \* the codec, see below

trainVars == <<s, pc, err, placed, run, epoch, step, step0, n_batches, batchesLeft,
               testRows, requires_grad, weights, opt, file, prevFile, cpSplit,
               trace, description>>
codecVars == <<refTable, table, cat_dims, d_cont, x, decoded, cpc>>
vars == <<trainVars, codecVars>>

\* ------------------------------------------------------- pure helpers

\* len(DataLoader(d, batch_size)) with drop_last = False
NumBatches(n, batch_size) == (n + batch_size - 1) \div batch_size

\* generator_update = step % s["critic_steps"] == 0
GeneratorUpdateEveryNextStep(st, critic_steps) == st % (critic_steps + 1) = 0
GeneratorUpdate(st, critic_steps) == st % critic_steps = 0

\* par.requires_grad of the critic's and of the generator's parameters
RequiresGradBoth(generator_update) == [critic |-> TRUE, generator |-> TRUE]
RequiresGrad(generator_update) ==
  [critic |-> ~generator_update, generator |-> generator_update]

\* step += 1
NextStepStuck(st) == st
NextStep(st) == st + 1

\* optimizer.step(): the parameters that take gradients are updated
OptStep(w, net, rg) == IF rg[net] THEN [w EXCEPT ![net] = @ + 1] ELSE w

Fresh == [generator |-> 0, critic |-> 0]

AbsentFile == [exists |-> FALSE, data |-> <<>>]

\* The object handed to torch.save
Checkpoint ==
  <<epoch, step, weights.generator, weights.critic, opt.generator, opt.critic>>

Complete(f) == f.exists /\ Len(f.data) = Len(CheckpointKeys)

\* Positions at which a process is alive inside train()
Running == {"train_loop", "test_loop", "diagnostics", "checkpoint", "saving"}

Settings ==
  [critic_steps: 1..MaxCriticSteps, optimizer: Optimizers, max_epochs: 1..MaxEpochs,
   batch_size: {1, MaxBatchSize}, test_set_size: 0..NRows, save_every: {1, MaxEvery},
   print_every: {1, MaxEvery}, save_checkpoint: BOOLEAN, load_checkpoint: {FALSE}]

\* --------------------------------------------------------------- codec
\* DataWrapper. A table is a sequence of rows, a row the values of the
\* categorical variables, in the order of categorical_vars. The continuous
\* columns are carried by their number only: each contributes one normalised
\* entry "z" to a row of x.
CategoricalVars == <<"black", "married">>
NCat == Len(CategoricalVars)
Levels == 0..MaxLevel
TableRow == [1..NCat -> Levels]
TablesOfLen(n) == [1..n -> TableRow]
Tables == UNION {TablesOfLen(n) : n \in 1..MaxTableRows}

RECURSIVE Sum(_)
Sum(q) == IF q = <<>> THEN 0 ELSE Head(q) + Sum(Tail(q))

RECURSIVE Sorted(_)
Sorted(S) == IF S = {} THEN <<>>
             ELSE LET m == CHOOSE a \in S : \A b \in S : a <= b
                  IN <<m>> \o Sorted(S \ {m})

RECURSIVE Concat(_)
Concat(qs) == IF qs = <<>> THEN <<>> ELSE Head(qs) \o Concat(Tail(qs))

\* the distinct values of column v of df
Column(df, v) == {df[r][v] : r \in 1..Len(df)}

\* df[v].nunique() for v in categorical_vars
NUnique(df) == [v \in 1..NCat |-> Cardinality(Column(df, v))]

\* pd.get_dummies(df[categorical], columns=categorical): per variable, one
\* indicator column for each level found in df, the levels in sorted order
GetDummies(df) ==
  [r \in 1..Len(df) |->
     Concat([v \in 1..NCat |->
               LET lv == Sorted(Column(df, v))
               IN [i \in 1..Len(lv) |-> IF df[r][v] = lv[i] THEN 1 ELSE 0]])]

\* preprocess: torch.cat([continuous, categorical], -1), row by row
Encode(df, dc) ==
  LET dummies == GetDummies(df)
  IN [r \in 1..Len(df) |->
        IF NCat > 0 THEN [i \in 1..dc |-> "z"] \o dummies[r]
                    ELSE [i \in 1..dc |-> "z"]]

\* categorical.split(self.cat_dims, -1): block v of one row
Block(cat, dims, v) ==
  LET off == Sum(SubSeq(dims, 1, v - 1)) IN SubSeq(cat, off + 1, off + dims[v])

\* torch.multinomial(p, 1): an index drawn with probability proportional to p
Multinomial(p) == {i \in 0..(Len(p) - 1) : p[i + 1] > 0}

RECURSIVE Product(_)
Product(sets) ==
  IF sets = <<>> THEN {<<>>}
  ELSE {<<h>> \o tl : h \in Head(sets), tl \in Product(Tail(sets))}

\* the tables deprocess can return for xs; {} when multinomial raises
Decodings(xs, dims, dc) ==
  Product([r \in 1..Len(xs) |->
             Product([v \in 1..NCat |->
                        Multinomial(Block(SubSeq(xs[r], dc + 1, Len(xs[r])), dims, v))])])

\* the training variables while only the codec runs
TrainIdle ==
  /\ s = [critic_steps |-> 15, optimizer |-> "AdamHD", max_epochs |-> 1,
          batch_size |-> 1, test_set_size |-> 0, save_every |-> 1, print_every |-> 1,
          save_checkpoint |-> FALSE, load_checkpoint |-> FALSE]
  /\ pc = "idle" /\ err = "" /\ placed = FALSE /\ run = 1
  /\ epoch = 0 /\ step = 1 /\ step0 = 1 /\ n_batches = 0 /\ batchesLeft = 0
  /\ testRows = {}
  /\ requires_grad = [critic |-> TRUE, generator |-> TRUE]
  /\ weights = Fresh /\ opt = Fresh
  /\ file = AbsentFile /\ prevFile = AbsentFile /\ cpSplit = {}
  /\ trace = <<>> /\ description = <<>>

\* the codec variables while only train() runs
CodecInit ==
  /\ refTable = <<>> /\ table = <<>> /\ cat_dims = <<>> /\ d_cont = 0
  /\ x = <<>> /\ decoded = <<>> /\ cpc = "idle"

\* a reference table and the number of continuous variables are given
CodecStart ==
  /\ refTable \in Tables /\ d_cont \in 0..MaxCont
  /\ table = <<>> /\ cat_dims = <<>> /\ x = <<>> /\ decoded = <<>> /\ cpc = "new"

\* DataWrapper.__init__(df, ...)
Build ==
  /\ cpc = "new"
  /\ cat_dims' = NUnique(refTable)
  /\ cpc' = "built"
  /\ UNCHANGED <<refTable, table, d_cont, x, decoded, trainVars>>

\* DataWrapper.preprocess(df), for the reference table, its first rows, or
\* any table of one row
Preprocess ==
  /\ cpc \in {"built", "encoded", "decoded", "error"}
  /\ \E df \in {SubSeq(refTable, 1, n) : n \in 1..Len(refTable)} \cup TablesOfLen(1) :
        /\ table' = df
        /\ x' = Encode(df, d_cont)
  /\ decoded' = <<>>
  /\ cpc' = "encoded"
  /\ UNCHANGED <<refTable, cat_dims, d_cont, trainVars>>

\* DataWrapper.deprocess(x, context), the categorical columns of its result
Deprocess ==
  /\ cpc = "encoded"
  /\ IF \E r \in 1..Len(x) : Len(x[r]) # d_cont + Sum(cat_dims)
       THEN cpc' = "error" /\ decoded' = <<>>          \* x.split raises
       ELSE IF Decodings(x, cat_dims, d_cont) = {}
       THEN cpc' = "error" /\ decoded' = <<>>          \* torch.multinomial raises
       ELSE cpc' = "decoded" /\ decoded' \in Decodings(x, cat_dims, d_cont)
  /\ UNCHANGED <<refTable, table, cat_dims, d_cont, x, trainVars>>

CodecNext == Build \/ Preprocess \/ Deprocess

CodecSpecInit == TrainIdle /\ CodecStart

CodecSpec == CodecSpecInit /\ [][CodecNext]_vars

\* ------------------------------------------------------------ training
TrainInit ==
  /\ s \in Settings
  /\ pc = "new" /\ err = "" /\ placed = FALSE /\ run = 1
  /\ epoch = 0 /\ step = 1 /\ step0 = 1 /\ n_batches = 0 /\ batchesLeft = 0
  /\ testRows = {}
  /\ requires_grad = [critic |-> TRUE, generator |-> TRUE]
  /\ weights = Fresh /\ opt = Fresh
  /\ file = AbsentFile /\ prevFile = AbsentFile /\ cpSplit = {}
  /\ trace = <<>> /\ description = <<>>

Init == TrainInit /\ CodecInit

\* Specifications.__init__: the settings are stored as given
SpecificationsInit ==
  /\ pc = "new"
  /\ pc' = "configured"
  /\ UNCHANGED <<s, err, placed, run, epoch, step, step0, n_batches, batchesLeft,
                 testRows, requires_grad, weights, opt, file, prevFile, cpSplit,
                 trace, description, codecVars>>

Raise(e) == pc' = "error" /\ err' = e

\* for epoch in range(start_epoch, max_epochs): entering the body for epoch e,
\* or leaving the loop; WD_train, n_batches = 0, 0 and the train iterator
EnterEpoch(e) ==
  IF e < s.max_epochs
    THEN /\ pc' = "train_loop" /\ epoch' = e /\ n_batches' = 0
         /\ batchesLeft' = NumBatches(NRows - s.test_set_size, s.batch_size)
    ELSE /\ pc' = "done" /\ UNCHANGED <<epoch, n_batches, batchesLeft>>

\* train(), from its first line to the head of the epoch loop. The split is
\* drawn on every call, before the checkpoint is looked at. A DataLoader with
\* shuffle=True over an empty split raises ValueError in the PyTorch releases
\* whose RandomSampler rejects num_samples = 0 and is built in the later ones:
\* both outcomes are kept. torch.load raises on a missing or truncated file.
TrainSetup ==
  /\ pc = "configured"
  /\ placed' = TRUE
  /\ UNCHANGED <<s, run, requires_grad, file, prevFile, cpSplit, description, codecVars>>
  /\ trace' = <<>>
  /\ IF s.optimizer \notin Registry
       THEN /\ Raise("KeyError")
            /\ UNCHANGED <<epoch, step, step0, n_batches, batchesLeft, testRows, weights, opt>>
       ELSE \E held \in {h \in SUBSET Rows : Cardinality(h) = s.test_set_size} :
            \E loaderRaises \in {b \in BOOLEAN : b => s.test_set_size \in {0, NRows}} :
              /\ testRows' = held
              /\ IF loaderRaises
                   THEN /\ Raise("ValueError")
                        /\ opt' = Fresh
                        /\ UNCHANGED <<epoch, step, step0, n_batches, batchesLeft, weights>>
                   ELSE IF ~s.load_checkpoint
                   THEN /\ opt' = Fresh /\ step' = 1 /\ step0' = 1 /\ err' = err
                        /\ UNCHANGED weights
                        /\ EnterEpoch(0)
                   ELSE IF ~Complete(file)
                   THEN /\ Raise(IF file.exists THEN "UnpicklingError" ELSE "FileNotFoundError")
                        /\ opt' = Fresh
                        /\ UNCHANGED <<epoch, step, step0, n_batches, batchesLeft, weights>>
                   ELSE /\ weights' = [generator |-> file.data[3], critic |-> file.data[4]]
                        /\ opt' = [generator |-> file.data[5], critic |-> file.data[6]]
                        /\ step' = file.data[2] /\ step0' = file.data[2] /\ err' = err
                        /\ EnterEpoch(file.data[1])

\* one iteration of "for x, context in train_batches"
TrainBatch ==
  /\ pc = "train_loop" /\ batchesLeft > 0
  /\ LET generator_update == GeneratorUpdate(step, s.critic_steps)
         rg  == RequiresGrad(generator_update)
         net == IF generator_update THEN "generator" ELSE "critic"
     IN /\ requires_grad' = rg
        /\ weights' = OptStep(weights, net, rg)
        /\ opt' = [opt EXCEPT ![net] = @ + 1]
        /\ n_batches' = IF generator_update THEN n_batches ELSE n_batches + 1
        /\ trace' = Append(trace, [step |-> step, epoch |-> epoch,
                                   generator_update |-> generator_update,
                                   requires_grad |-> rg, stepped |-> net])
  /\ step' = NextStep(step)
  /\ batchesLeft' = batchesLeft - 1
  /\ UNCHANGED <<s, pc, err, placed, run, epoch, step0, testRows, file, prevFile,
                 cpSplit, description, codecVars>>

\* WD_train /= n_batches, then WD_test, n_batches = 0, 0 and the test iterator
TrainEnd ==
  /\ pc = "train_loop" /\ batchesLeft = 0
  /\ IF n_batches = 0
       THEN Raise("ZeroDivisionError") /\ UNCHANGED <<n_batches, batchesLeft>>
       ELSE /\ pc' = "test_loop" /\ err' = err /\ n_batches' = 0
            /\ batchesLeft' = NumBatches(s.test_set_size, s.batch_size)
  /\ UNCHANGED <<s, placed, run, epoch, step, step0, testRows, requires_grad, weights,
                 opt, file, prevFile, cpSplit, trace, description, codecVars>>

\* one iteration of "for x, context in test_batches", under torch.no_grad()
TestBatch ==
  /\ pc = "test_loop" /\ batchesLeft > 0
  /\ n_batches' = n_batches + 1
  /\ batchesLeft' = batchesLeft - 1
  /\ UNCHANGED <<s, pc, err, placed, run, epoch, step, step0, testRows, requires_grad,
                 weights, opt, file, prevFile, cpSplit, trace, description, codecVars>>

\* WD_test /= n_batches
TestEnd ==
  /\ pc = "test_loop" /\ batchesLeft = 0
  /\ IF n_batches = 0 THEN Raise("ZeroDivisionError")
                      ELSE pc' = "diagnostics" /\ err' = err
  /\ UNCHANGED <<s, placed, run, epoch, step, step0, n_batches, batchesLeft, testRows,
                 requires_grad, weights, opt, file, prevFile, cpSplit, trace,
                 description, codecVars>>

\* if epoch % print_every == 0: print(description)
Diagnostics ==
  /\ pc = "diagnostics"
  /\ pc' = "checkpoint"
  /\ description' = IF epoch % s.print_every = 0 THEN <<epoch, step>> ELSE description
  /\ UNCHANGED <<s, err, placed, run, epoch, step, step0, n_batches, batchesLeft,
                 testRows, requires_grad, weights, opt, file, prevFile, cpSplit, trace,
                 codecVars>>

\* "if save_checkpoint and epoch % save_every == 0" is false: next epoch
SkipSave ==
  /\ pc = "checkpoint"
  /\ ~(s.save_checkpoint /\ epoch % s.save_every = 0)
  /\ EnterEpoch(epoch + 1)
  /\ UNCHANGED <<s, err, placed, run, step, step0, testRows, requires_grad, weights,
                 opt, file, prevFile, cpSplit, trace, description, codecVars>>

\* torch.save(obj, path) opens path for writing, which truncates it
SaveOpen ==
  /\ pc = "checkpoint"
  /\ s.save_checkpoint /\ epoch % s.save_every = 0
  /\ pc' = "saving"
  /\ prevFile' = file
  /\ file' = [exists |-> TRUE, data |-> <<>>]
  /\ cpSplit' = testRows
  /\ UNCHANGED <<s, err, placed, run, epoch, step, step0, n_batches, batchesLeft,
                 testRows, requires_grad, weights, opt, trace, description,
                 codecVars>>

\* torch.save writes the serialized object into the open file, front to back
SaveWrite ==
  /\ pc = "saving" /\ Len(file.data) < Len(CheckpointKeys)
  /\ file' = [file EXCEPT !.data = Append(@, Checkpoint[Len(@) + 1])]
  /\ UNCHANGED <<s, pc, err, placed, run, epoch, step, step0, n_batches, batchesLeft,
                 testRows, requires_grad, weights, opt, prevFile, cpSplit, trace,
                 description, codecVars>>

\* torch.save returns: next epoch
SaveClose ==
  /\ pc = "saving" /\ Len(file.data) = Len(CheckpointKeys)
  /\ prevFile' = file
  /\ EnterEpoch(epoch + 1)
  /\ UNCHANGED <<s, err, placed, run, step, step0, testRows, requires_grad, weights,
                 opt, file, cpSplit, trace, description, codecVars>>

\* the process is terminated from outside while inside train(): what it held
\* in memory is gone, the file stays as it is
Crash ==
  /\ pc \in Running
  /\ pc' = "crashed"
  /\ epoch' = 0 /\ step' = 1 /\ step0' = 1 /\ n_batches' = 0 /\ batchesLeft' = 0
  /\ testRows' = {}
  /\ requires_grad' = [critic |-> TRUE, generator |-> TRUE]
  /\ weights' = Fresh /\ opt' = Fresh
  /\ trace' = <<>> /\ description' = <<>>
  /\ UNCHANGED <<s, err, placed, run, file, prevFile, cpSplit, codecVars>>

\* a new process: fresh networks, and Specifications built again, with
\* load_checkpoint either None or the path of save_checkpoint
Restart ==
  /\ pc \in {"done", "crashed", "error"} /\ run < MaxRuns
  /\ \E load \in {b \in BOOLEAN : b => s.save_checkpoint} :
        s' = [s EXCEPT !.load_checkpoint = load]
  /\ pc' = "new" /\ err' = "" /\ placed' = FALSE /\ run' = run + 1
  /\ epoch' = 0 /\ step' = 1 /\ step0' = 1 /\ n_batches' = 0 /\ batchesLeft' = 0
  /\ testRows' = {}
  /\ requires_grad' = [critic |-> TRUE, generator |-> TRUE]
  /\ weights' = Fresh /\ opt' = Fresh
  /\ trace' = <<>> /\ description' = <<>>
  /\ prevFile' = file
  /\ UNCHANGED <<file, cpSplit, codecVars>>

Next ==
  \/ SpecificationsInit \/ TrainSetup \/ TrainBatch \/ TrainEnd \/ TestBatch \/ TestEnd
  \/ Diagnostics \/ SkipSave \/ SaveOpen \/ SaveWrite \/ SaveClose \/ Crash \/ Restart

Spec == Init /\ [][Next]_vars

\* ============================================================== claims

\* C1 (step parity): among the training batches of one call of train(), whose
\* steps are consecutive, every window of critic_steps consecutive steps holds
\* exactly one generator update, the step with step mod critic_steps = 0, and
\* critic_steps - 1 critic updates; also across epochs and after a resume.
StepParity ==
  LET cs == s.critic_steps IN
  /\ \A j \in 1..(Len(trace) - 1) : trace[j + 1].step = trace[j].step + 1
  /\ \A i \in 1..(Len(trace) - cs + 1) :
       LET window == i..(i + cs - 1)
           gen    == {j \in window : trace[j].stepped = "generator"}
       IN /\ Cardinality(gen) = 1
          /\ \A j \in gen : trace[j].step % cs = 0
          /\ Cardinality({j \in window : trace[j].stepped = "critic"}) = cs - 1

\* C1 witness: a resumed run (the counter did not start at 1) with
\* critic_steps >= 2 has processed a full window that spans two epochs.
StepParityWitness ==
  /\ s.critic_steps >= 2 /\ step0 > 1
  /\ \E i \in 1..(Len(trace) - s.critic_steps + 1) :
       trace[i].epoch # trace[i + s.critic_steps - 1].epoch

\* The state of a run of train() that starts fresh and is not interrupted,
\* after its first n training batches.
RECURSIVE Uninterrupted(_)
Uninterrupted(n) ==
  IF n = 0
    THEN [epoch |-> 0, left |-> NumBatches(NRows - s.test_set_size, s.batch_size),
          step |-> 1, weights |-> Fresh, opt |-> Fresh]
    ELSE LET p   == Uninterrupted(n - 1)
             at  == IF p.left = 0
                      THEN [p EXCEPT !.epoch = @ + 1,
                                     !.left = NumBatches(NRows - s.test_set_size, s.batch_size)]
                      ELSE p
             gu  == GeneratorUpdate(at.step, s.critic_steps)
             net == IF gu THEN "generator" ELSE "critic"
         IN [epoch |-> at.epoch, left |-> at.left - 1, step |-> NextStep(at.step),
             weights |-> OptStep(at.weights, net, RequiresGrad(gu)),
             opt |-> [at.opt EXCEPT ![net] = @ + 1]]

\* C2 (checkpoint resume equivalence): a run resumed from a checkpoint written
\* after N steps that has processed M further batches is in the state (epoch,
\* step, weights, optimizer states) of an uninterrupted run after N + M
\* batches, whenever the uninterrupted run has that many batches.
ResumeEquivalence ==
  LET n == (step0 - 1) + Len(trace) IN
  ( /\ s.load_checkpoint /\ pc \in Running /\ Len(trace) > 0
    /\ n <= s.max_epochs * NumBatches(NRows - s.test_set_size, s.batch_size) )
  => LET u == Uninterrupted(n)
     IN /\ trace[Len(trace)].epoch = u.epoch
        /\ step = u.step /\ weights = u.weights /\ opt = u.opt

\* C3 (guarded averages): no pass of train() ever divides its running sum by
\* a batch count of zero; stated for the runs whose two splits are both
\* non-empty, where every loader yields at least one batch.
DivisionGuarded ==
  (0 < s.test_set_size /\ s.test_set_size < NRows) => err # "ZeroDivisionError"

\* C4 (atomic checkpoint): after a crash the checkpoint file is the complete
\* previous file or a complete new one.
CheckpointAtomic == pc = "crashed" => (file = prevFile \/ Complete(file))

\* C5 (fixed split): a run that loaded a checkpoint holds out the same rows as
\* the run that wrote that checkpoint.
SplitFixedOnResume ==
  (s.load_checkpoint /\ pc \in Running) => testRows = cpSplit

\* C6 (encoded width): every x returned by preprocess has width
\* #continuous + sum of the cardinalities captured at construction.
EncodedWidthFixed ==
  cpc = "encoded" => \A r \in 1..Len(x) : Len(x[r]) = d_cont + Sum(cat_dims)

\* C7 (categorical round trip): deprocess(preprocess(T)), for the table T the
\* DataWrapper was built from, returns T's categorical values.
RoundTripCategorical ==
  (cpc \in {"decoded", "error"} /\ table = refTable) =>
     /\ cpc = "decoded"
     /\ \A r \in 1..Len(table) : \A v \in 1..NCat : decoded[r][v] = table[r][v]

\* C8 (optimizer rejected at configuration): with an optimizer name outside
\* the registry, Specifications() fails; train() is never entered and the
\* networks are never moved to the device.
UnsupportedOptimizerRejected ==
  s.optimizer \notin Registry => (pc = "new" /\ ~placed /\ err # "KeyError")

\* C9 (gradient isolation): at every training batch exactly one network has
\* requires_grad enabled, the one whose optimizer takes the single step();
\* the updates applied to each network are those of its own steps, so the
\* test pass, the report and the save apply none.
GradientIsolation ==
  /\ \A j \in 1..Len(trace) :
       LET e == trace[j] IN
       /\ e.requires_grad.critic # e.requires_grad.generator
       /\ e.requires_grad[e.stepped]
       /\ e.stepped = (IF e.generator_update THEN "generator" ELSE "critic")
  /\ Len(trace) > 0 => requires_grad = trace[Len(trace)].requires_grad
  /\ weights.generator = Cardinality({k \in 1..(step - 1) : k % s.critic_steps = 0})
  /\ weights.critic = (step - 1) - weights.generator
  /\ opt = weights

\* C9 witness: an epoch with a critic and a generator update has finished its
\* test pass.
GradientIsolationWitness ==
  /\ pc = "diagnostics"
  /\ \E i, j \in 1..Len(trace) :
       /\ trace[i].generator_update /\ ~trace[j].generator_update
       /\ trace[i].epoch = epoch /\ trace[j].epoch = epoch

\* C10 (global step counter): step is 1 when a fresh run enters the loop and
\* is always the value at loop entry plus the number of training batches
\* processed since, whatever else train() has done in between.
StepCounter ==
  /\ step = step0 + Len(trace)
  /\ \A j \in 1..Len(trace) : trace[j].step = step0 + j - 1
  /\ ~s.load_checkpoint => step0 = 1

\* C10 witness: a fresh run has finished two epochs, each with its test pass,
\* report and checkpoint save.
StepCounterWitness ==
  /\ ~s.load_checkpoint /\ pc = "done" /\ Complete(file) /\ description # <<>>
  /\ Len(trace) >= 3
  /\ \E i, j \in 1..Len(trace) : trace[i].epoch # trace[j].epoch
====
